---------------------------- MODULE Spec2Model ----------------------------
(***************************************************************************)
(* A model of the rule-check result tree of KiCad (common/rc_item.h):      *)
(* RC_ITEM, RC_ITEMS_PROVIDER, RC_TREE_NODE and RC_TREE_MODEL; of the      *)
(* reporters of include/reporter.h; and of the layer, tool and settings    *)
(* handlers of PCB_BASE_FRAME (pcbnew/basepcbframe.cpp).                   *)
(*                                                                         *)
(* The header gives the classes, their inline members and the ownership    *)
(* comments.  The bodies of RC_TREE_MODEL's out-of-line members and the    *)
(* concrete providers are not part of the sources at hand; they are        *)
(* modelled from the specification (section 4.1) and from the doc comments *)
(* of the interface.                                                       *)
(***************************************************************************)
EXTENDS Integers, Sequences, FiniteSets, TLC

\* ------------------------------------------------------------------ bounds

\* Number of RC_ITEM objects in the universe.
MaxItems == 3

\* ------------------------------------------------------------- the universe

Items == 1..MaxItems

Providers == {"P1", "P2"}

NoProvider == "nullptr"

\* The severities a mask is made of.  A mask is a set of severities.
Severities == {"ERROR", "WARNING"}

Masks == SUBSET Severities

\* GetCount's default argument (aSeverity = -1): count under the set filter.
\* It is no mask.
DefaultSeverity == {"-1"}

\* KIID values.  niluuid is the "no item" identifier.
niluuid == "nil"

KIIDs == {niluuid, "idA", "idB"}

\* Node addresses.  An item takes at most a MARKER node and two leaves.
NULL == 0

MaxAddr == 3 * MaxItems

Addr == 1..MaxAddr

\* enum NODE_TYPE { MARKER, MAIN_ITEM, AUX_ITEM }
NODE_TYPE == {"MARKER", "MAIN_ITEM", "AUX_ITEM"}

VARIABLES
    rcItems,            \* [Items -> RC_ITEM]: the identifiers each item holds
    provList,           \* [Providers -> Seq(Items)]: each provider's whole list
    provSev,            \* [Providers -> Masks]: each provider's severity filter
    provAlive,          \* [Providers -> BOOLEAN]: the provider object exists
    deleted,            \* the RC_ITEM objects that have been destroyed
    heap,               \* [Addr -> RC_TREE_NODE or FreeNode]
    m_tree,             \* Seq(Addr): the top-level nodes
    m_severities,       \* the mask stored in the model
    m_rcItemsProvider,  \* the attached provider, or NoProvider
    modelAlive,         \* the RC_TREE_MODEL has not been destroyed
    lastOp,             \* the last operation, its arguments and provider calls
    reporters,          \* [ReporterKinds -> Nat]: messages that reached each target
    frame,              \* the members of the PCB_BASE_FRAME and what it reads
    config              \* [ConfigKeys -> value or NoEntry]: the wxConfigBase

vars == <<rcItems, provList, provSev, provAlive, deleted, heap,
          m_tree, m_severities, m_rcItemsProvider, modelAlive, lastOp,
          reporters, frame, config>>

\* The variables of the rule-check tree, its provider and its items.
treeVars == <<rcItems, provList, provSev, provAlive, deleted, heap,
              m_tree, m_severities, m_rcItemsProvider, modelAlive>>

\* The variables the rule-check tree's operations never touch.
otherVars == <<reporters, frame, config>>

\* ------------------------------------------------------------------ RC_ITEM

\* RC_ITEM::RC_ITEM(): both identifiers are niluuid.
RC_ITEM_ctor == [m_mainItemUuid |-> niluuid, m_auxItemUuid |-> niluuid]

\* RC_ITEM::SetItems( const KIID& aItem, const KIID& bItem = niluuid )
SetItemsKIID(item, aItem, bItem) ==
    [item EXCEPT !.m_mainItemUuid = aItem, !.m_auxItemUuid = bItem]

\* RC_ITEM::RC_ITEM( RC_ITEM* aItem ): both identifiers are copied.
RC_ITEM_copy(aItem) ==
    [m_mainItemUuid |-> aItem.m_mainItemUuid, m_auxItemUuid |-> aItem.m_auxItemUuid]

\* The EDA_ITEM objects SetItems can be handed, each known by its m_Uuid, and
\* the null pointer.
EDA_ITEMs == KIIDs \ {niluuid}

nullptr == "nullptr"

m_Uuid(aItem) == aItem

\* A plausible fault: without a second item the auxiliary identifier is reset.
SetItemsResetsAux(item, aItem, bItem) ==
    [item EXCEPT !.m_mainItemUuid = m_Uuid(aItem),
                 !.m_auxItemUuid = IF bItem # nullptr THEN m_Uuid(bItem) ELSE niluuid]

\* RC_ITEM::SetItems( EDA_ITEM* aItem, EDA_ITEM* bItem = nullptr ): the
\* auxiliary identifier is assigned only when bItem is given.
SetItems(item, aItem, bItem) ==
    [item EXCEPT !.m_mainItemUuid = m_Uuid(aItem),
                 !.m_auxItemUuid = IF bItem # nullptr THEN m_Uuid(bItem) ELSE @]

GetMainItemID(item) == item.m_mainItemUuid

\* A getter that returns the wrong member.
GetAuxItemIDReturnsMain(item) == item.m_mainItemUuid

GetAuxItemID(item) == item.m_auxItemUuid

\* Items a caller can have built with the constructor and SetItems: no
\* identifier, a main one only, both, an auxiliary one only.
ItemShapes ==
    << RC_ITEM_ctor,
       SetItemsKIID(RC_ITEM_ctor, "idA", niluuid),
       SetItemsKIID(RC_ITEM_ctor, "idA", "idB"),
       SetItemsKIID(RC_ITEM_ctor, niluuid, "idB") >>

\* ------------------------------------------------------- RC_ITEMS_PROVIDER

\* The severity of an item comes from its error code through a map kept
\* outside these classes; here the items alternate ERROR, WARNING, ERROR, ...
severityOf(it) == IF it % 2 = 1 THEN "ERROR" ELSE "WARNING"

Matching(list, mask) == SelectSeq(list, LAMBDA it : severityOf(it) \in mask)

\* The provider's visible list: the items that pass its severity filter.
Filtered(p) == Matching(provList[p], provSev[p])

\* int GetCount( int aSeverity = -1 )
GetCount(p, aSeverity) ==
    IF aSeverity = DefaultSeverity
    THEN Len(Filtered(p))
    ELSE Len(Matching(provList[p], aSeverity))

\* RC_ITEM* GetItem( int aIndex ): index into the visible list (1-based here).
GetItem(p, aIndex) == Filtered(p)[aIndex]

IndexOf(seq, x) ==
    IF \E i \in 1..Len(seq) : seq[i] = x
    THEN CHOOSE i \in 1..Len(seq) : seq[i] = x /\ \A j \in 1..(i - 1) : seq[j] # x
    ELSE 0

Range(seq) == {seq[i] : i \in 1..Len(seq)}

RemoveAt(seq, i) == SubSeq(seq, 1, i - 1) \o SubSeq(seq, i + 1, Len(seq))

\* A plausible fault: the index into the visible list is used on the whole list.
DeleteItemListUnfiltered(p, aIndex) == RemoveAt(provList[p], aIndex)

\* void DeleteItem( int aIndex, bool aDeep ): the whole list without the
\* aIndex-th visible item.
DeleteItemList(p, aIndex) ==
    RemoveAt(provList[p], IndexOf(provList[p], GetItem(p, aIndex)))

\* A DeleteAllItems that only clears what the filter shows.
DeleteAllItemsVisibleOnly(p) ==
    SelectSeq(provList[p], LAMBDA it : severityOf(it) \notin provSev[p])

\* void DeleteAllItems(): removes and deletes all the items in the list.
DeleteAllItemsList(p) == << >>

\* ------------------------------------------------------------ RC_TREE_NODE

FreeNode == [m_Type |-> "FREE", m_RcItem |-> 0, m_Parent |-> NULL, m_Children |-> << >>]

\* A constructor that leaves m_Type at its first enumerator.
RC_TREE_NODE_TypeNotSet(aParent, aRcItem, aType) ==
    [m_Type |-> "MARKER", m_RcItem |-> aRcItem, m_Parent |-> aParent, m_Children |-> << >>]

\* A constructor that leaves m_Parent null.
RC_TREE_NODE_ParentNotSet(aParent, aRcItem, aType) ==
    [m_Type |-> aType, m_RcItem |-> aRcItem, m_Parent |-> NULL, m_Children |-> << >>]

\* RC_TREE_NODE( aParent, aRcItem, aType ): the three members, no children.
RC_TREE_NODE(aParent, aRcItem, aType) ==
    [m_Type |-> aType, m_RcItem |-> aRcItem, m_Parent |-> aParent, m_Children |-> << >>]

IsFree(h, a) == h[a].m_Type = "FREE"

\* operator new: the lowest free address.
Alloc(h) == CHOOSE a \in Addr : IsFree(h, a) /\ \A b \in 1..(a - 1) : ~IsFree(h, b)

\* A destructor that does not delete the children.
DestroyNodesShallow(h, nodes) ==
    [a \in Addr |-> IF a \in Range(nodes) THEN FreeNode ELSE h[a]]

RECURSIVE DestroyNodes(_, _)
\* ~RC_TREE_NODE() on every node of the sequence: each child is deleted, then
\* the node's storage is released.  m_RcItem is not touched.
DestroyNodes(h, nodes) ==
    IF nodes = << >>
    THEN h
    ELSE LET a  == Head(nodes)
             h1 == DestroyNodes(h, h[a].m_Children)
         IN  DestroyNodes([h1 EXCEPT ![a] = FreeNode], Tail(nodes))

\* A delete that releases the node and forgets its children.
DestroyNodeOnly(h, a) == [h EXCEPT ![a] = FreeNode]

\* delete aNode
DestroyNode(h, a) == DestroyNodes(h, <<a>>)

\* A destructor that also deletes m_RcItem.
ItemsDestroyedWithNodes(h, nodes) == {h[a].m_RcItem : a \in Range(nodes)}

\* The RC_ITEM objects ~RC_TREE_NODE() destroys when the nodes of the sequence
\* are deleted: none, the destructor deletes m_Children only.
ItemsDestroyed(h, nodes) == {}

\* ----------------------------------------------------------- RC_TREE_MODEL

\* static wxDataViewItem ToItem( RC_TREE_NODE const* aNode ): the address is
\* the handle; the null pointer is the invalid item (the invisible root).
ToItem(aNode) == aNode

\* static RC_TREE_NODE* ToNode( wxDataViewItem aItem )
ToNode(aItem) == aItem

\* "RC_ITEMS_PROVIDER* m_rcItemsProvider;   // I own this, but not its contents"
OwnsProvider == TRUE

\* The provider objects after the model lets go of provider p.
ReleaseProvider(alive, p) ==
    IF OwnsProvider /\ p # NoProvider THEN [alive EXCEPT ![p] = FALSE] ELSE alive

\* The leaves of the node built for an item: a MAIN_ITEM leaf when the item has
\* a main identifier, then an AUX_ITEM leaf when it also has an auxiliary one.
LeafTypes(item) ==
    IF GetMainItemID(item) = niluuid
    THEN << >>
    ELSE IF GetAuxItemID(item) = niluuid
         THEN <<"MAIN_ITEM">>
         ELSE <<"MAIN_ITEM", "AUX_ITEM">>

RECURSIVE AddLeaves(_, _, _, _)
\* n->m_Children.push_back( new RC_TREE_NODE( n, item, type ) ) for each type
AddLeaves(h, n, it, types) ==
    IF types = << >>
    THEN h
    ELSE LET c  == Alloc(h)
             h1 == [h EXCEPT ![c] = RC_TREE_NODE(n, it, Head(types)),
                             ![n].m_Children = Append(@, c)]
         IN  AddLeaves(h1, n, it, Tail(types))

RECURSIVE BuildTreeReversed(_, _, _)
\* A rebuild loop that puts each new node in front of the earlier ones.
BuildTreeReversed(h, tree, list) ==
    IF list = << >>
    THEN <<h, tree>>
    ELSE LET it == Head(list)
             n  == Alloc(h)
             h1 == [h EXCEPT ![n] = RC_TREE_NODE(NULL, it, "MARKER")]
             h2 == AddLeaves(h1, n, it, LeafTypes(rcItems[it]))
         IN  BuildTreeReversed(h2, <<n>> \o tree, Tail(list))

RECURSIVE BuildTree(_, _, _)
\* The rebuild loop over the provider's visible items, in index order.  The
\* result is the pair <<heap, tree>>.
BuildTree(h, tree, list) ==
    IF list = << >>
    THEN <<h, tree>>
    ELSE LET it == Head(list)
             n  == Alloc(h)
             h1 == [h EXCEPT ![n] = RC_TREE_NODE(NULL, it, "MARKER")]
             h2 == AddLeaves(h1, n, it, LeafTypes(rcItems[it]))
         IN  BuildTree(h2, Append(tree, n), Tail(list))

NoCalls == << >>

\* A call made on the provider, with its arguments.
Call(fn, aIndex, aDeep, aSeverities) ==
    [fn |-> fn, aIndex |-> aIndex, aDeep |-> aDeep, aSeverities |-> aSeverities]

\* What the last operation was, its arguments (the mask given to SetSeverities;
\* the type of the node given to DeleteCurrentItem and aDeep; the number of
\* items the filter hid when DeleteAllItems was called) and the calls it made
\* on the provider.  arg is the integer argument of a frame operation (the
\* layer, the tool id) and result the value a bool operation returned.
Op(name, mask, type, deep, hidden, calls) ==
    [op |-> name, mask |-> mask, type |-> type, deep |-> deep, hidden |-> hidden,
     calls |-> calls, arg |-> 0, result |-> FALSE]

OpNoArgs(name, calls) == Op(name, {}, "none", FALSE, 0, calls)

\* void rebuildModel( RC_ITEMS_PROVIDER* aProvider, int aSeverities )
rebuildModel(aProvider, aSeverities, op) ==
    LET sev   == [provSev EXCEPT ![aProvider] = aSeverities]
        list  == Matching(provList[aProvider], aSeverities)
        built == BuildTree(DestroyNodes(heap, m_tree), << >>, list)
    IN  /\ provAlive' = IF m_rcItemsProvider # aProvider
                        THEN ReleaseProvider(provAlive, m_rcItemsProvider)
                        ELSE provAlive
        /\ m_rcItemsProvider' = aProvider
        /\ m_severities' = aSeverities
        /\ provSev' = sev
        /\ heap' = built[1]
        /\ m_tree' = built[2]
        /\ deleted' = deleted \cup ItemsDestroyed(heap, m_tree)
        /\ lastOp' = [op EXCEPT !.calls = <<Call("SetSeverities", 0, FALSE, aSeverities)>>]
        /\ UNCHANGED <<rcItems, provList, modelAlive>>

\* void SetProvider( RC_ITEMS_PROVIDER* aProvider )
SetProvider ==
    \E p \in Providers :
        /\ modelAlive
        /\ provAlive[p]
        /\ rebuildModel(p, m_severities, OpNoArgs("SetProvider", NoCalls))

\* void SetSeverities( int aSeverities )
SetSeverities ==
    \E mask \in Masks :
        /\ modelAlive
        /\ m_rcItemsProvider # NoProvider
        /\ rebuildModel(m_rcItemsProvider, mask,
                        Op("SetSeverities", mask, "none", FALSE, 0, NoCalls))

\* The owning MARKER node of a node: the node itself, or a leaf's parent.
GroupOf(h, node) == IF h[node].m_Parent = NULL THEN node ELSE h[node].m_Parent

\* The nodes the view can hold as its current item: every node of the tree.
TreeNodes ==
    {m_tree[i] : i \in 1..Len(m_tree)} \cup
    UNION {{heap[m_tree[i]].m_Children[j] : j \in 1..Len(heap[m_tree[i]].m_Children)} :
              i \in 1..Len(m_tree)}

\* A count that takes the leaves for items too.
GetDRCItemCountAllNodes == Cardinality(TreeNodes)

\* int GetDRCItemCount() const { return m_tree.size(); }
GetDRCItemCount == Len(m_tree)

\* The type of the node behind a handle; "none" for the invalid item.
NodeType(aItem) == IF ToNode(aItem) = NULL THEN "none" ELSE heap[ToNode(aItem)].m_Type

\* wxDataViewItem GetParent( wxDataViewItem const& aItem ): the parent of the
\* node as an item; the invalid item for the invalid item.
GetParent(aItem) ==
    LET node == ToNode(aItem)
    IN  IF node = NULL THEN ToItem(NULL) ELSE ToItem(heap[node].m_Parent)

\* A DeleteCurrentItem that drops the node from the tree whether or not the
\* provider knows its item.
DeleteCurrentItemUnguarded(current, aDeep) ==
        /\ modelAlive
        /\ m_rcItemsProvider # NoProvider
        /\ LET node  == ToNode(current)
               group == IF node = NULL THEN NULL ELSE GroupOf(heap, node)
               index == IF node = NULL THEN 0
                        ELSE IndexOf(Filtered(m_rcItemsProvider), heap[group].m_RcItem)
           IN  /\ provList' = IF index = 0 THEN provList
                              ELSE [provList EXCEPT ![m_rcItemsProvider] =
                                       DeleteItemList(m_rcItemsProvider, index)]
               /\ m_tree' = IF node = NULL THEN m_tree
                            ELSE RemoveAt(m_tree, IndexOf(m_tree, group))
               /\ heap' = IF node = NULL THEN heap ELSE DestroyNode(heap, group)
               /\ lastOp' = Op("DeleteCurrentItem", {}, NodeType(current), aDeep, 0,
                               IF index = 0 THEN NoCalls
                               ELSE <<Call("DeleteItem", index, aDeep, {})>>)
               /\ UNCHANGED <<rcItems, provSev, provAlive, deleted, m_severities,
                              m_rcItemsProvider, modelAlive>>

\* void DeleteCurrentItem( bool aDeep ): the current item's owning MARKER node
\* is mapped back to its index in the provider's visible list; without such an
\* index nothing happens.
DeleteCurrentItemOn(current, aDeep) ==
        /\ modelAlive
        /\ m_rcItemsProvider # NoProvider
        /\ LET node  == ToNode(current)
               group == IF node = NULL THEN NULL ELSE GroupOf(heap, node)
               index == IF node = NULL THEN 0
                        ELSE IndexOf(Filtered(m_rcItemsProvider), heap[group].m_RcItem)
           IN  IF index = 0
               THEN /\ lastOp' = Op("DeleteCurrentItem", {}, NodeType(current), aDeep, 0, NoCalls)
                    /\ UNCHANGED <<rcItems, provList, provSev, provAlive, deleted, heap,
                                   m_tree, m_severities, m_rcItemsProvider, modelAlive>>
               ELSE /\ provList' = [provList EXCEPT ![m_rcItemsProvider] =
                                        DeleteItemList(m_rcItemsProvider, index)]
                    /\ m_tree' = RemoveAt(m_tree, IndexOf(m_tree, group))
                    /\ heap' = DestroyNode(heap, group)
                    /\ deleted' = deleted \cup ItemsDestroyed(heap, <<group>>)
                    /\ lastOp' = Op("DeleteCurrentItem", {}, NodeType(current), aDeep, 0,
                                    <<Call("DeleteItem", index, aDeep, {})>>)
                    /\ UNCHANGED <<rcItems, provSev, provAlive, m_severities,
                                   m_rcItemsProvider, modelAlive>>

DeleteCurrentItem ==
    \E current \in TreeNodes \cup {NULL}, aDeep \in BOOLEAN :
        DeleteCurrentItemOn(current, aDeep)

\* void DeleteAllItems(): the provider deletes every item, then the tree is
\* cleared.
DeleteAllItems ==
    /\ modelAlive
    /\ m_rcItemsProvider # NoProvider
    /\ provList' = [provList EXCEPT ![m_rcItemsProvider] =
                        DeleteAllItemsList(m_rcItemsProvider)]
    /\ deleted' = deleted \cup ItemsDestroyed(heap, m_tree)
                          \cup {provList[m_rcItemsProvider][i] :
                                    i \in 1..Len(provList[m_rcItemsProvider])}
    /\ heap' = DestroyNodes(heap, m_tree)
    /\ m_tree' = << >>
    /\ lastOp' = Op("DeleteAllItems", {}, "none", FALSE,
                    GetCount(m_rcItemsProvider, Severities)
                        - GetCount(m_rcItemsProvider, DefaultSeverity),
                    <<Call("DeleteAllItems", 0, FALSE, {})>>)
    /\ UNCHANGED <<rcItems, provSev, provAlive, m_severities, m_rcItemsProvider,
                   modelAlive>>

\* ~RC_TREE_MODEL(): the nodes are deleted; so is the provider the model owns.
DestroyModel ==
    /\ modelAlive
    /\ modelAlive' = FALSE
    /\ provAlive' = ReleaseProvider(provAlive, m_rcItemsProvider)
    /\ heap' = DestroyNodes(heap, m_tree)
    /\ m_tree' = << >>
    /\ lastOp' = OpNoArgs("~RC_TREE_MODEL", NoCalls)
    /\ deleted' = deleted \cup ItemsDestroyed(heap, m_tree)
    /\ UNCHANGED <<rcItems, provList, provSev, m_severities, m_rcItemsProvider>>

\* The provider's owner (the checker, a dialog) removes a visible item from the
\* attached provider's list without telling the model.
OutOfBandDelete ==
    \E p \in Providers :
        \E index \in 1..Len(Filtered(p)) :
            /\ modelAlive
            /\ p = m_rcItemsProvider
            /\ provList' = [provList EXCEPT ![p] = DeleteItemList(p, index)]
            /\ lastOp' = OpNoArgs("OutOfBandDelete", NoCalls)
            /\ UNCHANGED <<rcItems, provSev, provAlive, deleted, heap, m_tree,
                           m_severities, m_rcItemsProvider, modelAlive>>

\* bool IsContainer( wxDataViewItem const& aItem ): the invisible root item
\* (no node) is a container; a node is one when it is a MARKER node.
IsContainer(aItem) ==
    IF ToNode(aItem) = NULL THEN TRUE
    ELSE heap[ToNode(aItem)].m_Type = "MARKER"

\* The vector GetChildren walks: the top-level nodes for the invisible root
\* item, the node's own children for a node.
ChildrenOf(aItem) ==
    IF ToNode(aItem) = NULL THEN m_tree ELSE heap[ToNode(aItem)].m_Children

\* A plausible fault: the walk ignores the item and always lists the top level.
GetChildrenOfRoot(aItem) ==
    [aChildren |-> [i \in 1..Len(m_tree) |-> ToItem(m_tree[i])],
     count |-> Len(m_tree)]

\* unsigned int GetChildren( wxDataViewItem const& aItem,
\*                           wxDataViewItemArray& aChildren ):
\* one handle is appended per element of the vector, in its order; the size of
\* the vector is returned.
GetChildren(aItem) ==
    [aChildren |-> [i \in 1..Len(ChildrenOf(aItem)) |-> ToItem(ChildrenOf(aItem)[i])],
     count |-> Len(ChildrenOf(aItem))]

\* The values a view may hand to SetValue, and the columns it may name (the
\* model has one column; a view may still ask for another).
Variants == {"", "text"}

Columns == 0..1

\* A plausible fault: the edit is reported as accepted.
SetValueAccepts(aVariant, aItem, aCol) == TRUE

\* What SetValue returns: "Editing not supported".
SetValueReturn(aVariant, aItem, aCol) == FALSE

\* bool SetValue( wxVariant const& aVariant, wxDataViewItem const& aItem,
\*                unsigned int aCol ) { return false; }
\* for every value, every node of the tree or the invalid item, every column.
SetValue ==
    \E result \in {SetValueReturn(aVariant, ToItem(aItem), aCol) :
                       aVariant \in Variants, aItem \in TreeNodes \cup {NULL},
                       aCol \in Columns} :
        /\ modelAlive
        /\ lastOp' = [OpNoArgs("SetValue", NoCalls) EXCEPT !.result = result]
        /\ UNCHANGED treeVars

\* ----------------------------------------------------------------- REPORTER

\* Number of messages a reporter is sent.
MaxMessages == 3

\* The reporters of reporter.h.
ReporterKinds == {"WX_TEXT_CTRL_REPORTER", "WX_STRING_REPORTER",
                  "WX_HTML_PANEL_REPORTER", "NULL_REPORTER", "STDOUT_REPORTER"}

\* reporters[k] is the number of messages that reached k's target (the text
\* control, the string, the panel, std::cout; nothing for NULL_REPORTER).
ReportersInit == [k \in ReporterKinds |-> 0]

\* REPORTER& Report( const wxString& aText, SEVERITY aSeverity ): the number
\* of messages at the target afterwards.  NULL_REPORTER "reports to nowhere";
\* STDOUT_REPORTER forwards the message to std::cout; the wx reporters hand it
\* to their control, string or panel.
Report(k, delivered) ==
    IF k = "NULL_REPORTER" THEN delivered ELSE delivered + 1

\* REPORTER::ReportTail and ReportHead: return Report( aText, aSeverity ).
ReportTail(k, delivered) == Report(k, delivered)

ReportHead(k, delivered) == Report(k, delivered)

\* REPORTER& operator <<( const wxString& aText ) { return Report( aText ); }
OperatorShift(k, delivered) == Report(k, delivered)

\* bool HasMessage() const: { return false; } for NULL_REPORTER and for
\* STDOUT_REPORTER; "true if the reporter client is non-empty" for the others.
HasMessage(k) ==
    CASE k = "NULL_REPORTER"   -> FALSE
      [] k = "STDOUT_REPORTER" -> FALSE
      [] OTHER                 -> reporters[k] > 0

\* ----------------------------------------------------------- PCB_BASE_FRAME

\* Number of non-copper layers in the universe.
MaxNonCopperLayers == 2

\* Number of tool ids above ID_NO_TOOL in the universe.
MaxToolId == 3
MaxBoards == 3

\* The copper layers GAL_LAYER_ORDER names: LAYER_N_BACK, LAYER_N_2 ..
\* LAYER_N_15 and LAYER_N_FRONT, numbered from the back.
LAYER_N_BACK == 0

LAYER_N_FRONT == 15

Layers == LAYER_N_BACK..(LAYER_N_FRONT + MaxNonCopperLayers)

\* The numbers of enabled copper layers a board can have.
CopperLayerCounts == 1..(LAYER_N_FRONT + 1)

IsCopperLayer(layer) == layer >= LAYER_N_BACK /\ layer <= LAYER_N_FRONT

\* Tool ids.  ID_TRACK_BUTT is one of them; which one does not matter.
ID_NO_TOOL == 0

ID_TRACK_BUTT == 1

ToolIds == ID_NO_TOOL..MaxToolId

\* enum { LINE, FILLED, SKETCH }: the ways to draw module edges and texts.
LINE == 0

FILLED == 1

SKETCH == 2

\* enum EDA_UNITS_T
INCHES == 0

MILLIMETRES == 1

\* The grid ids, numbered from ID_POPUP_GRID_LEVEL_1000 (they are consecutive
\* enumerators; only their differences are used).
ID_POPUP_GRID_LEVEL_1000 == 0

ID_POPUP_GRID_LEVEL_500 == 1

ID_POPUP_GRID_USER == 22

\* Configuration entry names.
UserGridSizeXEntry == "PcbUserGrid_X"

UserGridSizeYEntry == "PcbUserGrid_Y"

UserGridUnitsEntry == "PcbUserGrid_Unit"

DisplayPadFillEntry == "DiPadFi"

DisplayViaFillEntry == "DiViaFi"

DisplayPadNumberEntry == "DiPadNu"

DisplayModuleEdgeEntry == "DiModEd"

DisplayModuleTextEntry == "DiModTx"

FastGrid1Entry == "FastGrid1"

FastGrid2Entry == "FastGrid2"

ConfigEntries == {UserGridSizeXEntry, UserGridSizeYEntry, UserGridUnitsEntry,
                  DisplayPadFillEntry, DisplayViaFillEntry, DisplayPadNumberEntry,
                  DisplayModuleEdgeEntry, DisplayModuleTextEntry,
                  FastGrid1Entry, FastGrid2Entry}

\* The name of the frame; every key starts with it.
m_FrameName == "PcbFrame"

\* m_FrameName + entry
ConfigKey(entry) == <<m_FrameName, entry>>

ConfigKeys == {ConfigKey(e) : e \in ConfigEntries}

\* A key the configuration has no entry for holds the empty tuple, an entry
\* holds the one-element tuple of its value.
NoEntry == << >>

ConfigEmpty == [k \in ConfigKeys |-> NoEntry]

\* wxConfigBase::Read( key, &value, defaultValue )
ConfigRead(cfg, key, defaultValue) ==
    IF cfg[key] = NoEntry THEN defaultValue ELSE cfg[key][1]

\* wxConfigBase::Write( key, value )
ConfigWrite(cfg, key, value) == [cfg EXCEPT ![key] = <<value>>]

\* The BOARD objects callers create (BOARD* values other than NULL).
Boards == 1..MaxBoards

\* PCB_BASE_FRAME::PCB_BASE_FRAME.  The members of the base class and of the
\* screen start as their own constructors leave them: no canvas, no tool, the
\* back layer active, no grid chosen.  copperLayerCount is what
\* m_Pcb->GetCopperLayerCount() gives once a board is set; refreshed tells
\* whether the last operation called m_canvas->Refresh().  The global
\* DisplayOpt.DisplayPadFill starts as the frame's flag does; painterPadFill is
\* the pad fill option the painter's settings were last loaded with and
\* padToolChecked the check state OnUpdatePadDrawMode last gave the tool.
\* boards tells, of every BOARD a caller may create, whether it was handed to
\* SetBoard and how many times delete ran on it; destroyed tells that the
\* frame's destructor has run and crashed that a delete of an already deleted
\* board ended the process.
PCB_BASE_FRAME_ctor ==
    [m_Pcb                |-> NULL,
     boards               |-> [b \in Boards |-> [given |-> FALSE, deletes |-> 0]],
     destroyed            |-> FALSE,
     crashed              |-> FALSE,
     copperLayerCount     |-> 0,
     m_Active_Layer       |-> LAYER_N_BACK,
     ContrastModeDisplay  |-> FALSE,
     m_canvas             |-> FALSE,
     m_toolId             |-> ID_NO_TOOL,
     refreshed            |-> FALSE,
     m_LastGridSizeId     |-> 0,
     m_DisplayPadFill     |-> TRUE,
     DisplayOptPadFill    |-> TRUE,
     painterPadFill       |-> TRUE,
     padToolChecked       |-> FALSE,
     m_DisplayViaFill     |-> TRUE,
     m_DisplayPadNum      |-> TRUE,
     m_DisplayModEdge     |-> FILLED,
     m_DisplayModText     |-> FILLED,
     m_UserGridSize       |-> [x |-> "100.0", y |-> "100.0"],
     m_UserGridUnit       |-> INCHES,
     m_FastGrid1          |-> 0,
     m_FastGrid2          |-> 0]

TypeOK ==
    /\ \A it \in Items : \E k \in 1..Len(ItemShapes) : rcItems[it] = ItemShapes[k]
    /\ m_severities \in Masks
    /\ m_rcItemsProvider \in Providers \cup {NoProvider}
    /\ \A i \in 1..Len(m_tree) : m_tree[i] \in Addr

Init ==
    /\ \E r \in 0..(Len(ItemShapes) - 1) :
          rcItems = [it \in Items |-> ItemShapes[((it + r) % Len(ItemShapes)) + 1]]
    /\ \E k \in 0..MaxItems :
          provList = [p \in Providers |->
                         IF p = "P1" THEN [i \in 1..k |-> i]
                         ELSE [i \in 1..(MaxItems - k) |-> k + i]]
    /\ provSev = [p \in Providers |-> Severities]
    /\ provAlive = [p \in Providers |-> TRUE]
    /\ deleted = {}
    /\ heap = [a \in Addr |-> FreeNode]
    /\ m_tree = << >>
    /\ m_severities = Severities
    /\ m_rcItemsProvider = NoProvider
    /\ modelAlive = TRUE
    /\ lastOp = OpNoArgs("construct", NoCalls)
    /\ reporters = ReportersInit
    /\ frame = PCB_BASE_FRAME_ctor
    /\ config = ConfigEmpty

Next ==
    \/ SetProvider /\ UNCHANGED otherVars
    \/ SetSeverities /\ UNCHANGED otherVars
    \/ DeleteCurrentItem /\ UNCHANGED otherVars
    \/ DeleteAllItems /\ UNCHANGED otherVars
    \/ DestroyModel /\ UNCHANGED otherVars
    \/ OutOfBandDelete /\ UNCHANGED otherVars

Spec == Init /\ [][Next]_vars

\* The model with the view's edit requests as well.
NextView ==
    \/ Next
    \/ SetValue /\ UNCHANGED otherVars

SpecView == Init /\ [][NextView]_vars

\* The model's four operations alone: nobody else changes the provider's list
\* and the model lives on.
NextCoherent ==
    \/ SetProvider /\ UNCHANGED otherVars
    \/ SetSeverities /\ UNCHANGED otherVars
    \/ DeleteCurrentItem /\ UNCHANGED otherVars
    \/ DeleteAllItems /\ UNCHANGED otherVars

SpecCoherent == Init /\ [][NextCoherent]_vars


\* ------------------------------------------- RC_ITEM on its own (SpecItem)

\* The variables of the tree and the providers, the items apart.
modelVars == <<provList, provSev, provAlive, deleted, heap, m_tree,
               m_severities, m_rcItemsProvider, modelAlive>>

\* No provider has an item, no provider is attached, the tree is empty.
TreeIdle ==
    /\ provList = [p \in Providers |-> << >>]
    /\ provSev = [p \in Providers |-> Severities]
    /\ provAlive = [p \in Providers |-> TRUE]
    /\ deleted = {}
    /\ heap = [a \in Addr |-> FreeNode]
    /\ m_tree = << >>
    /\ m_severities = Severities
    /\ m_rcItemsProvider = NoProvider
    /\ modelAlive = TRUE

\* new RC_ITEM() in the place of item it.
ConstructItemOn(it) ==
    /\ rcItems' = [rcItems EXCEPT ![it] = RC_ITEM_ctor]
    /\ lastOp' = OpNoArgs("RC_ITEM()", NoCalls)
    /\ UNCHANGED <<modelVars, otherVars>>

ConstructItem == \E it \in Items : ConstructItemOn(it)

\* new RC_ITEM( from ) in the place of item it.
CopyItemOn(it, from) ==
    /\ rcItems' = [rcItems EXCEPT ![it] = RC_ITEM_copy(rcItems[from])]
    /\ lastOp' = OpNoArgs("RC_ITEM(RC_ITEM*)", NoCalls)
    /\ UNCHANGED <<modelVars, otherVars>>

CopyItem == \E it, from \in Items : CopyItemOn(it, from)

\* it->SetItems( aItem, bItem ) with EDA_ITEM pointers; aItem is dereferenced,
\* so it is no null pointer.
SetItemsOn(it, aItem, bItem) ==
    /\ rcItems' = [rcItems EXCEPT ![it] = SetItems(rcItems[it], aItem, bItem)]
    /\ lastOp' = OpNoArgs("SetItems(EDA_ITEM*)", NoCalls)
    /\ UNCHANGED <<modelVars, otherVars>>

SetItemsEDA ==
    \E it \in Items, aItem \in EDA_ITEMs, bItem \in EDA_ITEMs \cup {nullptr} :
        SetItemsOn(it, aItem, bItem)

\* it->SetItems( aItem, bItem ) with identifiers.
SetItemsKIIDOn(it, aItem, bItem) ==
    /\ rcItems' = [rcItems EXCEPT ![it] = SetItemsKIID(rcItems[it], aItem, bItem)]
    /\ lastOp' = OpNoArgs("SetItems(KIID)", NoCalls)
    /\ UNCHANGED <<modelVars, otherVars>>

SetItemsByKIID == \E it \in Items, aItem, bItem \in KIIDs : SetItemsKIIDOn(it, aItem, bItem)

InitItem ==
    /\ rcItems = [it \in Items |-> RC_ITEM_ctor]
    /\ TreeIdle
    /\ lastOp = OpNoArgs("RC_ITEM()", NoCalls)
    /\ reporters = ReportersInit
    /\ frame = PCB_BASE_FRAME_ctor
    /\ config = ConfigEmpty

NextItem ==
    \/ ConstructItem
    \/ CopyItem
    \/ SetItemsEDA
    \/ SetItemsByKIID

SpecItem == InitItem /\ [][NextItem]_vars

\* --------------------------------------- the reporters (SpecReporter)

\* reporter.Report( aText )
CallReport ==
    \E k \in ReporterKinds :
        /\ reporters[k] < MaxMessages
        /\ reporters' = [reporters EXCEPT ![k] = Report(k, @)]
        /\ lastOp' = OpNoArgs("Report", NoCalls)
        /\ UNCHANGED <<treeVars, frame, config>>

\* reporter.ReportTail( aText )
CallReportTail ==
    \E k \in ReporterKinds :
        /\ reporters[k] < MaxMessages
        /\ reporters' = [reporters EXCEPT ![k] = ReportTail(k, @)]
        /\ lastOp' = OpNoArgs("ReportTail", NoCalls)
        /\ UNCHANGED <<treeVars, frame, config>>

\* reporter.ReportHead( aText )
CallReportHead ==
    \E k \in ReporterKinds :
        /\ reporters[k] < MaxMessages
        /\ reporters' = [reporters EXCEPT ![k] = ReportHead(k, @)]
        /\ lastOp' = OpNoArgs("ReportHead", NoCalls)
        /\ UNCHANGED <<treeVars, frame, config>>

\* reporter << aText
CallOperatorShift ==
    \E k \in ReporterKinds :
        /\ reporters[k] < MaxMessages
        /\ reporters' = [reporters EXCEPT ![k] = OperatorShift(k, @)]
        /\ lastOp' = OpNoArgs("operator<<", NoCalls)
        /\ UNCHANGED <<treeVars, frame, config>>

InitReporter ==
    /\ rcItems = [it \in Items |-> RC_ITEM_ctor]
    /\ TreeIdle
    /\ lastOp = OpNoArgs("construct", NoCalls)
    /\ reporters = ReportersInit
    /\ frame = PCB_BASE_FRAME_ctor
    /\ config = ConfigEmpty

NextReporter ==
    \/ CallReport
    \/ CallReportTail
    \/ CallReportHead
    \/ CallOperatorShift

SpecReporter == InitReporter /\ [][NextReporter]_vars

\* ------------------------------- layers and tools of the frame (SpecFrame)

\* A frame operation with its integer argument.
OpArg(name, arg) == [OpNoArgs(name, NoCalls) EXCEPT !.arg = arg]

\* A plausible fault: the inner layer numbered GetCopperLayerCount() - 1 is
\* let through.
LayerDisregardedAboveCount(layer, aCopperLayerCount) ==
    /\ IsCopperLayer(layer)
    /\ IF aCopperLayerCount < 2
       THEN layer # LAYER_N_BACK
       ELSE /\ layer # LAYER_N_BACK
            /\ layer # LAYER_N_FRONT
            /\ layer > aCopperLayerCount - 1

\* SwitchLayer's test on a copper layer: the selection is disregarded.
LayerDisregarded(layer, aCopperLayerCount) ==
    /\ IsCopperLayer(layer)
    /\ IF aCopperLayerCount < 2
       THEN layer # LAYER_N_BACK
       ELSE /\ layer # LAYER_N_BACK
            /\ layer # LAYER_N_FRONT
            /\ layer >= aCopperLayerCount - 1

\* void PCB_BASE_FRAME::SwitchLayer( wxDC* DC, LAYER_NUM layer ).  m_Pcb and,
\* when the canvas is to be refreshed, m_canvas are dereferenced: the caller
\* has set them.
SwitchLayerOn(layer) ==
    LET preslayer == frame.m_Active_Layer
    IN  /\ frame.m_Pcb # NULL
        /\ frame.ContrastModeDisplay => frame.m_canvas
        /\ frame' = IF layer = preslayer
                        \/ LayerDisregarded(layer, frame.copperLayerCount)
                     THEN [frame EXCEPT !.refreshed = FALSE]
                     ELSE [frame EXCEPT !.m_Active_Layer = layer,
                                        !.refreshed = frame.ContrastModeDisplay]
        /\ lastOp' = OpArg("SwitchLayer", layer)
        /\ UNCHANGED <<treeVars, reporters, config>>

SwitchLayer == \E layer \in Layers : SwitchLayerOn(layer)

\* EDA_DRAW_FRAME::SetToolID: the tool is set ("after the tool has been
\* set"); a negative id sets none.
EDA_DRAW_FRAME_SetToolID(toolId, aId) == IF aId < 0 THEN toolId ELSE aId

\* SetToolID's redraw flag, from the tool GetToolId() gives when it is tested.
Redraw(toolId, aId, aContrastModeDisplay) ==
    /\ \/ toolId = ID_TRACK_BUTT /\ aId # ID_TRACK_BUTT
       \/ toolId # ID_TRACK_BUTT /\ aId = ID_TRACK_BUTT
    /\ aContrastModeDisplay

\* void PCB_BASE_FRAME::SetToolID( int aId, int aCursor, const wxString& aToolMsg ):
\* the base class sets the tool first, the transition is tested afterwards.
SetToolIDOn(aId) ==
    LET toolId == EDA_DRAW_FRAME_SetToolID(frame.m_toolId, aId)
        redraw == IF aId < 0 THEN FALSE
                  ELSE Redraw(toolId, aId, frame.ContrastModeDisplay)
    IN  /\ frame' = [frame EXCEPT !.m_toolId = toolId,
                                  !.refreshed = redraw /\ frame.m_canvas]
        /\ lastOp' = OpArg("SetToolID", aId)
        /\ UNCHANGED <<treeVars, reporters, config>>

SetToolID == \E aId \in {-1} \cup ToolIds : SetToolIDOn(aId)

\* The board's number of enabled copper layers is changed (board setup).
SetCopperLayerCount ==
    \E n \in CopperLayerCounts :
        /\ frame.m_Pcb # NULL
        /\ frame' = [frame EXCEPT !.copperLayerCount = n, !.refreshed = FALSE]
        /\ lastOp' = OpArg("SetCopperLayerCount", n)
        /\ UNCHANGED <<treeVars, reporters, config>>

\* DisplayOpt.ContrastModeDisplay is switched (the high-contrast button).
ToggleContrastMode ==
    /\ frame' = [frame EXCEPT !.ContrastModeDisplay = ~@, !.refreshed = FALSE]
    /\ lastOp' = OpNoArgs("ToggleContrastMode", NoCalls)
    /\ UNCHANGED <<treeVars, reporters, config>>

\* A frame with a board of two copper layers; with or without a canvas.
InitFrame ==
    /\ rcItems = [it \in Items |-> RC_ITEM_ctor]
    /\ TreeIdle
    /\ lastOp = OpNoArgs("construct", NoCalls)
    /\ reporters = ReportersInit
    /\ \E canvas \in BOOLEAN :
          frame = [PCB_BASE_FRAME_ctor EXCEPT !.m_Pcb = 1,
                                              !.boards[1].given = TRUE,
                                              !.copperLayerCount = 2,
                                              !.m_canvas = canvas]
    /\ config = ConfigEmpty

NextFrame ==
    \/ SwitchLayer
    \/ SetToolID
    \/ SetCopperLayerCount
    \/ ToggleContrastMode

SpecFrame == InitFrame /\ [][NextFrame]_vars

\* ------------------------------------ settings of the frame (SpecSettings)

\* A plausible fault: only the lower limit is tested.
ClampDrawModeLowOnly(mode) == IF mode < LINE THEN FILLED ELSE mode

\* if( mode < LINE || mode > SKETCH ) mode = FILLED;
ClampDrawMode(mode) == IF mode < LINE \/ mode > SKETCH THEN FILLED ELSE mode

\* "Ensure grid id is an existent grid id"
ClampGridId(id) ==
    IF id <= 0 \/ id > (ID_POPUP_GRID_USER - ID_POPUP_GRID_LEVEL_1000)
    THEN ID_POPUP_GRID_LEVEL_500 - ID_POPUP_GRID_LEVEL_1000
    ELSE id

\* The values EDA_DRAW_FRAME::LoadSettings may leave in m_LastGridSizeId.
GridIdInputs == {-1, 0, 1, 2, ID_POPUP_GRID_USER - ID_POPUP_GRID_LEVEL_1000,
                 ID_POPUP_GRID_USER - ID_POPUP_GRID_LEVEL_1000 + 1}

\* The frame after LoadSettings( aCfg ), the base class having left
\* aLastGridSizeId in m_LastGridSizeId.
LoadedFrame(f, aCfg, aLastGridSizeId) ==
    [f EXCEPT
       !.m_LastGridSizeId = ClampGridId(aLastGridSizeId),
       !.m_UserGridSize   = [x |-> ConfigRead(aCfg, ConfigKey(UserGridSizeXEntry), "0.01"),
                             y |-> ConfigRead(aCfg, ConfigKey(UserGridSizeYEntry), "0.01")],
       !.m_UserGridUnit   = ConfigRead(aCfg, ConfigKey(UserGridUnitsEntry), INCHES),
       !.m_DisplayPadFill = ConfigRead(aCfg, ConfigKey(DisplayPadFillEntry), TRUE),
       !.m_DisplayViaFill = ConfigRead(aCfg, ConfigKey(DisplayViaFillEntry), TRUE),
       !.m_DisplayPadNum  = ConfigRead(aCfg, ConfigKey(DisplayPadNumberEntry), TRUE),
       !.m_DisplayModEdge =
           ClampDrawMode(ConfigRead(aCfg, ConfigKey(DisplayModuleEdgeEntry), FILLED)),
       !.m_FastGrid1      = ConfigRead(aCfg, ConfigKey(FastGrid1Entry), 0),
       !.m_FastGrid2      = ConfigRead(aCfg, ConfigKey(FastGrid2Entry), 0),
       !.m_DisplayModText =
           ClampDrawMode(ConfigRead(aCfg, ConfigKey(DisplayModuleTextEntry), FILLED)),
       !.painterPadFill   = f.DisplayOptPadFill,
       !.refreshed        = FALSE]

\* A plausible fault: the text mode is written under the edge mode's name.
SavedConfigTextUnderEdge(f, aCfg) ==
    LET c1  == ConfigWrite(aCfg, ConfigKey(UserGridSizeXEntry), f.m_UserGridSize.x)
        c2  == ConfigWrite(c1, ConfigKey(UserGridSizeYEntry), f.m_UserGridSize.y)
        c3  == ConfigWrite(c2, ConfigKey(UserGridUnitsEntry), f.m_UserGridUnit)
        c4  == ConfigWrite(c3, ConfigKey(DisplayPadFillEntry), f.m_DisplayPadFill)
        c5  == ConfigWrite(c4, ConfigKey(DisplayViaFillEntry), f.m_DisplayViaFill)
        c6  == ConfigWrite(c5, ConfigKey(DisplayPadNumberEntry), f.m_DisplayPadNum)
        c7  == ConfigWrite(c6, ConfigKey(DisplayModuleEdgeEntry), f.m_DisplayModEdge)
        c8  == ConfigWrite(c7, ConfigKey(DisplayModuleEdgeEntry), f.m_DisplayModText)
        c9  == ConfigWrite(c8, ConfigKey(FastGrid1Entry), f.m_FastGrid1)
    IN  ConfigWrite(c9, ConfigKey(FastGrid2Entry), f.m_FastGrid2)

\* The configuration after SaveSettings( aCfg ): ten entries are written.
SavedConfig(f, aCfg) ==
    LET c1  == ConfigWrite(aCfg, ConfigKey(UserGridSizeXEntry), f.m_UserGridSize.x)
        c2  == ConfigWrite(c1, ConfigKey(UserGridSizeYEntry), f.m_UserGridSize.y)
        c3  == ConfigWrite(c2, ConfigKey(UserGridUnitsEntry), f.m_UserGridUnit)
        c4  == ConfigWrite(c3, ConfigKey(DisplayPadFillEntry), f.m_DisplayPadFill)
        c5  == ConfigWrite(c4, ConfigKey(DisplayViaFillEntry), f.m_DisplayViaFill)
        c6  == ConfigWrite(c5, ConfigKey(DisplayPadNumberEntry), f.m_DisplayPadNum)
        c7  == ConfigWrite(c6, ConfigKey(DisplayModuleEdgeEntry), f.m_DisplayModEdge)
        c8  == ConfigWrite(c7, ConfigKey(DisplayModuleTextEntry), f.m_DisplayModText)
        c9  == ConfigWrite(c8, ConfigKey(FastGrid1Entry), f.m_FastGrid1)
    IN  ConfigWrite(c9, ConfigKey(FastGrid2Entry), f.m_FastGrid2)

\* The settings a user leaves in the frame through its dialogs and toolbars.
\* The last one holds draw modes outside [LINE, SKETCH].
Settings(gx, gy, unit, pad, via, num, edge, text, fast1, fast2) ==
    [m_UserGridSize |-> [x |-> gx, y |-> gy], m_UserGridUnit |-> unit,
     m_DisplayPadFill |-> pad, m_DisplayViaFill |-> via, m_DisplayPadNum |-> num,
     m_DisplayModEdge |-> edge, m_DisplayModText |-> text,
     m_FastGrid1 |-> fast1, m_FastGrid2 |-> fast2]

SettingsPresets ==
    << Settings("0.01", "0.01", INCHES, TRUE, TRUE, TRUE, FILLED, FILLED, 0, 0),
       Settings("2.54", "1.27", MILLIMETRES, FALSE, TRUE, FALSE, LINE, SKETCH, 1, 2),
       Settings("100.0", "2.54", INCHES, TRUE, FALSE, TRUE, SKETCH, LINE, 3, 0),
       Settings("1.27", "100.0", MILLIMETRES, FALSE, FALSE, FALSE, SKETCH + 1, LINE - 1, 5, 5) >>

ApplySettings(f, s) ==
    [f EXCEPT !.m_UserGridSize = s.m_UserGridSize, !.m_UserGridUnit = s.m_UserGridUnit,
              !.m_DisplayPadFill = s.m_DisplayPadFill, !.m_DisplayViaFill = s.m_DisplayViaFill,
              !.m_DisplayPadNum = s.m_DisplayPadNum, !.m_DisplayModEdge = s.m_DisplayModEdge,
              !.m_DisplayModText = s.m_DisplayModText, !.m_FastGrid1 = s.m_FastGrid1,
              !.m_FastGrid2 = s.m_FastGrid2, !.refreshed = FALSE]

\* The configurations a frame may find: what some settings were saved as by
\* an earlier session (whose grid was 0.5 wide), with none, some or all of
\* the entries missing.
MissingEntries ==
    { {}, ConfigKeys,
      {ConfigKey(UserGridSizeXEntry), ConfigKey(DisplayPadFillEntry),
       ConfigKey(DisplayModuleEdgeEntry), ConfigKey(FastGrid1Entry)},
      {ConfigKey(UserGridSizeYEntry), ConfigKey(UserGridUnitsEntry),
       ConfigKey(DisplayViaFillEntry), ConfigKey(DisplayPadNumberEntry),
       ConfigKey(DisplayModuleTextEntry), ConfigKey(FastGrid2Entry)} }

ConfigInputs ==
    { [k \in ConfigKeys |->
          IF k \in missing
          THEN NoEntry
          ELSE SavedConfig(ApplySettings(PCB_BASE_FRAME_ctor,
                                         [SettingsPresets[s] EXCEPT !.m_UserGridSize.x = "0.5"]),
                           ConfigEmpty)[k]] :
        s \in 1..Len(SettingsPresets), missing \in MissingEntries }

\* void PCB_BASE_FRAME::LoadSettings( wxConfigBase* aCfg )
LoadSettings ==
    \E aLastGridSizeId \in GridIdInputs :
        /\ frame' = LoadedFrame(frame, config, aLastGridSizeId)
        /\ lastOp' = OpNoArgs("LoadSettings", NoCalls)
        /\ UNCHANGED <<treeVars, reporters, config>>

\* void PCB_BASE_FRAME::SaveSettings( wxConfigBase* aCfg )
SaveSettings ==
    /\ config' = SavedConfig(frame, config)
    /\ lastOp' = OpNoArgs("SaveSettings", NoCalls)
    /\ UNCHANGED <<treeVars, reporters, frame>>

\* The user changes the settings.
ChangeSettings ==
    \E s \in 1..Len(SettingsPresets) :
        /\ frame' = ApplySettings(frame, SettingsPresets[s])
        /\ lastOp' = OpNoArgs("ChangeSettings", NoCalls)
        /\ UNCHANGED <<treeVars, reporters, config>>

InitSettings ==
    /\ rcItems = [it \in Items |-> RC_ITEM_ctor]
    /\ TreeIdle
    /\ lastOp = OpNoArgs("construct", NoCalls)
    /\ reporters = ReportersInit
    /\ frame = PCB_BASE_FRAME_ctor
    /\ config \in ConfigInputs

NextSettings ==
    \/ LoadSettings
    \/ SaveSettings
    \/ ChangeSettings

SpecSettings == InitSettings /\ [][NextSettings]_vars

\* ------------------------------------ pad draw mode (SpecPadDrawMode)

\* void PCB_BASE_FRAME::OnTogglePadDrawMode( wxCommandEvent& aEvent ):
\* m_DisplayPadFill = DisplayOpt.DisplayPadFill = !m_DisplayPadFill; the
\* painter's settings load DisplayOpt; the board's pads are updated and the
\* canvas refreshed (both are dereferenced).
OnTogglePadDrawMode ==
    /\ frame.m_Pcb # NULL
    /\ frame.m_canvas
    /\ frame' = [frame EXCEPT !.m_DisplayPadFill  = ~frame.m_DisplayPadFill,
                              !.DisplayOptPadFill = ~frame.m_DisplayPadFill,
                              !.painterPadFill    = ~frame.m_DisplayPadFill,
                              !.refreshed         = TRUE]
    /\ lastOp' = OpNoArgs("OnTogglePadDrawMode", NoCalls)
    /\ UNCHANGED <<treeVars, reporters, config>>

\* void PCB_BASE_FRAME::OnUpdatePadDrawMode( wxUpdateUIEvent& aEvent ):
\* aEvent.Check( !m_DisplayPadFill )
OnUpdatePadDrawMode ==
    /\ frame' = [frame EXCEPT !.padToolChecked = ~frame.m_DisplayPadFill,
                              !.refreshed = FALSE]
    /\ lastOp' = OpNoArgs("OnUpdatePadDrawMode", NoCalls)
    /\ UNCHANGED <<treeVars, reporters, config>>

\* A frame with a board and a canvas, before its settings are loaded.
InitPadDrawMode ==
    /\ rcItems = [it \in Items |-> RC_ITEM_ctor]
    /\ TreeIdle
    /\ lastOp = OpNoArgs("construct", NoCalls)
    /\ reporters = ReportersInit
    /\ frame = [PCB_BASE_FRAME_ctor EXCEPT !.m_Pcb = 1,
                                            !.boards[1].given = TRUE,
                                            !.copperLayerCount = 2,
                                            !.m_canvas = TRUE]
    /\ config \in ConfigInputs

NextPadDrawMode ==
    \/ LoadSettings
    \/ OnTogglePadDrawMode
    \/ OnUpdatePadDrawMode

SpecPadDrawMode == InitPadDrawMode /\ [][NextPadDrawMode]_vars

\* ------------------------------------------ board ownership (SpecBoard)

\* delete p: nothing for a null pointer; the first delete of a board runs its
\* destructor; a delete of a board already deleted is undefined: the
\* destructor runs again on the freed object, or the allocator ends the
\* process.
DeleteBoard(bs, p) ==
    IF p = NULL
    THEN {[boards |-> bs, crashed |-> FALSE]}
    ELSE IF bs[p].deletes = 0
         THEN {[boards |-> [bs EXCEPT ![p].deletes = 1], crashed |-> FALSE]}
         ELSE {[boards |-> [bs EXCEPT ![p].deletes = 2], crashed |-> FALSE],
               [boards |-> bs, crashed |-> TRUE]}

\* The boards a caller can hand over: no board, or a BOARD that has not been
\* deleted, the one the frame holds included.
BoardArguments == {NULL} \cup {b \in Boards : frame.boards[b].deletes = 0}

\* void PCB_BASE_FRAME::SetBoard( BOARD* aBoard ): delete m_Pcb; m_Pcb = aBoard;
SetBoardOn(aBoard) ==
    /\ ~frame.destroyed
    /\ ~frame.crashed
    /\ \E out \in DeleteBoard(frame.boards, frame.m_Pcb) :
          frame' = [frame EXCEPT
              !.boards  = IF aBoard = NULL \/ out.crashed
                          THEN out.boards
                          ELSE [out.boards EXCEPT ![aBoard].given = TRUE],
              !.crashed = out.crashed,
              !.m_Pcb   = IF out.crashed THEN frame.m_Pcb ELSE aBoard,
              !.refreshed = FALSE]
    /\ lastOp' = OpArg("SetBoard", aBoard)
    /\ UNCHANGED <<treeVars, reporters, config>>

SetBoard == \E aBoard \in BoardArguments : SetBoardOn(aBoard)

\* PCB_BASE_FRAME::~PCB_BASE_FRAME(): delete m_Collector; delete m_Pcb;
\* delete GetGalCanvas();
PCB_BASE_FRAME_dtor ==
    /\ ~frame.destroyed
    /\ ~frame.crashed
    /\ \E out \in DeleteBoard(frame.boards, frame.m_Pcb) :
          frame' = [frame EXCEPT !.boards    = out.boards,
                                 !.crashed   = out.crashed,
                                 !.destroyed = ~out.crashed,
                                 !.refreshed = FALSE]
    /\ lastOp' = OpNoArgs("~PCB_BASE_FRAME", NoCalls)
    /\ UNCHANGED <<treeVars, reporters, config>>

InitBoard ==
    /\ rcItems = [it \in Items |-> RC_ITEM_ctor]
    /\ TreeIdle
    /\ lastOp = OpNoArgs("construct", NoCalls)
    /\ reporters = ReportersInit
    /\ frame = PCB_BASE_FRAME_ctor
    /\ config = ConfigEmpty

NextBoard ==
    \/ SetBoard
    \/ PCB_BASE_FRAME_dtor

SpecBoard == InitBoard /\ [][NextBoard]_vars

\* ------------------------------------------------------------------ claims

Rebuilt == lastOp.op \in {"SetProvider", "SetSeverities"}

\* The item each top-level node refers to, in tree order.
GroupItems == [i \in 1..Len(m_tree) |-> heap[m_tree[i]].m_RcItem]

\* The types of a node's children, in order.
ChildTypes(n) == [j \in 1..Len(heap[n].m_Children) |-> heap[heap[n].m_Children[j]].m_Type]

\* The number of items of a list whose severity is in a mask, counted one by one.
CountMatching(list, mask) ==
    Cardinality({i \in 1..Len(list) : severityOf(list[i]) \in mask})

\* C1: right after SetSeverities(M) the model stores M, the provider filters
\* by M, and GetDRCItemCount() is the provider's count of the items matching M.
C1_CountAfterSetSeverities ==
    lastOp.op = "SetSeverities" =>
        /\ m_severities = lastOp.mask
        /\ provSev[m_rcItemsProvider] = lastOp.mask
        /\ lastOp.calls = <<Call("SetSeverities", 0, FALSE, lastOp.mask)>>
        /\ GetDRCItemCount = GetCount(m_rcItemsProvider, lastOp.mask)
        /\ GetDRCItemCount = CountMatching(provList[m_rcItemsProvider], lastOp.mask)

\* C1 witness: a filter that hides some items of the provider and shows others.
C1_Witness ==
    /\ lastOp.op = "SetSeverities"
    /\ lastOp.mask = {"ERROR"}
    /\ GetDRCItemCount = 2
    /\ Len(provList[m_rcItemsProvider]) = 3

\* C2: after a rebuild the top-level nodes are in provider order: every item
\* that passes the filter has a node, and of two such items the one with the
\* lower provider index comes first.
C2_RebuildOrderStable ==
    Rebuilt =>
        LET list == provList[m_rcItemsProvider]
        IN  /\ \A i \in 1..Len(list) :
                   severityOf(list[i]) \in m_severities => list[i] \in Range(GroupItems)
            /\ \A a, b \in 1..Len(m_tree) :
                   a < b => /\ IndexOf(list, GroupItems[a]) > 0
                            /\ IndexOf(list, GroupItems[a]) < IndexOf(list, GroupItems[b])

\* C2 witness: items [ERROR, WARNING, ERROR] under an ERROR-only filter give
\* the nodes of item 1 and item 3, in that order.
C2_Witness ==
    /\ Rebuilt
    /\ m_severities = {"ERROR"}
    /\ provList[m_rcItemsProvider] = <<1, 2, 3>>
    /\ GroupItems = <<1, 3>>

\* C3: after a rebuild the children of a top-level node follow from its
\* item's identifiers: a main identifier alone gives one MAIN_ITEM child, both
\* give [MAIN_ITEM, AUX_ITEM], and an AUX_ITEM child only comes after a
\* MAIN_ITEM child.
C3_ChildrenFollowIdentifiers ==
    Rebuilt =>
        \A i \in 1..Len(m_tree) :
            LET item  == rcItems[heap[m_tree[i]].m_RcItem]
                types == ChildTypes(m_tree[i])
            IN  /\ (item.m_mainItemUuid # niluuid /\ item.m_auxItemUuid = niluuid)
                       => types = <<"MAIN_ITEM">>
                /\ (item.m_mainItemUuid # niluuid /\ item.m_auxItemUuid # niluuid)
                       => types = <<"MAIN_ITEM", "AUX_ITEM">>
                /\ \A j \in 1..Len(types) :
                       types[j] = "AUX_ITEM" => \E k \in 1..(j - 1) : types[k] = "MAIN_ITEM"

\* C3 witness: a rebuilt tree with an item of each kind: main only, both, and
\* an auxiliary identifier without a main one.
C3_Witness ==
    /\ Rebuilt
    /\ \E i, j, k \in 1..Len(m_tree) :
          /\ ChildTypes(m_tree[i]) = <<"MAIN_ITEM">>
          /\ ChildTypes(m_tree[j]) = <<"MAIN_ITEM", "AUX_ITEM">>
          /\ rcItems[GroupItems[k]].m_mainItemUuid = niluuid
          /\ rcItems[GroupItems[k]].m_auxItemUuid # niluuid


\* The owning top-level node of a tree node, read off the node's type.
OwnerOf(n) == IF heap[n].m_Type = "MARKER" THEN n ELSE heap[n].m_Parent

\* The provider lists the item of the node's owner and its filter shows it.
Mappable(n) ==
    /\ n # NULL
    /\ heap[OwnerOf(n)].m_RcItem \in Range(provList[m_rcItemsProvider])
    /\ severityOf(heap[OwnerOf(n)].m_RcItem) \in provSev[m_rcItemsProvider]

\* The index of an item in the provider's visible list: the number of visible
\* items up to it in the whole list.
VisibleIndex(p, it) ==
    Cardinality({i \in 1..IndexOf(provList[p], it) : severityOf(provList[p][i]) \in provSev[p]})

\* C4: DeleteCurrentItem(false) on a node whose item the provider shows removes
\* the owning top-level node and its children and nothing else from the tree,
\* calls DeleteItem once, with aDeep = false, at the item's index in the
\* provider's visible list, and leaves the other items, their order and the
\* other nodes as they were.
C4_ShallowDeleteRemovesOneGroup ==
    [][ \A current \in Addr :
          ( /\ current \in TreeNodes
            /\ Mappable(current)
            /\ DeleteCurrentItemOn(current, FALSE) )
          => LET group == OwnerOf(current)
                 item  == heap[group].m_RcItem
                 gone  == {group} \cup Range(heap[group].m_Children)
             IN  /\ m_tree' = SelectSeq(m_tree, LAMBDA a : a # group)
                 /\ heap' = [a \in Addr |-> IF a \in gone THEN FreeNode ELSE heap[a]]
                 /\ lastOp'.calls =
                        <<Call("DeleteItem", VisibleIndex(m_rcItemsProvider, item), FALSE, {})>>
                 /\ provList' = [provList EXCEPT ![m_rcItemsProvider] =
                                    SelectSeq(@, LAMBDA x : x # item)]
                 /\ UNCHANGED <<rcItems, provSev, provAlive, deleted, m_severities,
                                m_rcItemsProvider, modelAlive>>
      ]_vars

\* C4 witness: a leaf was the current item, the second visible item was deleted
\* without aDeep, and other nodes remain.
C4_Witness ==
    /\ lastOp.op = "DeleteCurrentItem"
    /\ lastOp.type = "AUX_ITEM"
    /\ lastOp.calls = <<Call("DeleteItem", 2, FALSE, {})>>
    /\ Len(m_tree) >= 2

\* C5: right after DeleteAllItems the provider has been asked to delete all its
\* items, GetDRCItemCount() is 0 and the provider counts 0 items under every
\* severity argument, the items the filter hid included.
C5_DeleteAllEmptiesBoth ==
    lastOp.op = "DeleteAllItems" =>
        /\ lastOp.calls = <<Call("DeleteAllItems", 0, FALSE, {})>>
        /\ GetDRCItemCount = 0
        /\ \A sev \in Masks \cup {DefaultSeverity} : GetCount(m_rcItemsProvider, sev) = 0
        /\ provList[m_rcItemsProvider] = << >>
        /\ \A a \in Addr : IsFree(heap, a)

\* C5 witness: DeleteAllItems was called while the filter hid an item.
C5_Witness ==
    /\ lastOp.op = "DeleteAllItems"
    /\ lastOp.hidden > 0
    /\ m_severities = {"ERROR"}

\* C6: DeleteCurrentItem on a node that maps to no index of the provider's
\* visible list (no node, or a node whose item the provider no longer shows)
\* does nothing: no call on the provider, the tree and the lists unchanged.
C6_UnmappableDeleteIsNoOp ==
    [][ \A current \in Addr \cup {NULL}, aDeep \in BOOLEAN :
          ( /\ current \in TreeNodes \cup {NULL}
            /\ ~Mappable(current)
            /\ DeleteCurrentItemOn(current, aDeep) )
          => /\ lastOp'.calls = NoCalls
             /\ UNCHANGED <<rcItems, provList, provSev, provAlive, deleted, heap, m_tree,
                            m_severities, m_rcItemsProvider, modelAlive>>
      ]_vars

\* C6 witness: DeleteCurrentItem was given a node of the tree, made no call on
\* the provider, and the node's item is no longer in the provider's list.
C6_Witness ==
    /\ lastOp.op = "DeleteCurrentItem"
    /\ lastOp.type = "MAIN_ITEM"
    /\ lastOp.calls = NoCalls
    /\ \E n \in TreeNodes :
          /\ heap[n].m_Type = "MAIN_ITEM"
          /\ heap[n].m_RcItem \notin Range(provList[m_rcItemsProvider])

\* C7: in every state the tree is well formed: a top-level node is a MARKER
\* without a parent and with at most two children; a child is a MAIN_ITEM or
\* an AUX_ITEM, has that node as its parent and has no children.
C7_TreeWellFormed ==
    \A i \in 1..Len(m_tree) :
        LET g == m_tree[i]
        IN  /\ heap[g].m_Type = "MARKER"
            /\ heap[g].m_Parent = NULL
            /\ Len(heap[g].m_Children) <= 2
            /\ \A j \in 1..Len(heap[g].m_Children) :
                  LET c == heap[g].m_Children[j]
                  IN  /\ heap[c].m_Type \in {"MAIN_ITEM", "AUX_ITEM"}
                      /\ heap[c].m_Parent = g
                      /\ heap[c].m_Children = << >>

\* C7 witness: after a delete, a tree with a node without children and a node
\* with two.
C7_Witness ==
    /\ lastOp.op = "DeleteCurrentItem"
    /\ lastOp.calls # NoCalls
    /\ \E i, j \in 1..Len(m_tree) :
          /\ Len(heap[m_tree[i]].m_Children) = 0
          /\ Len(heap[m_tree[j]].m_Children) = 2

\* The step replaces the attached provider or discards the model.
LetsGoOfProvider ==
    \/ lastOp'.op = "~RC_TREE_MODEL"
    \/ lastOp'.op = "SetProvider" /\ m_rcItemsProvider' # m_rcItemsProvider

\* No rebuild and no destruction of nodes or of the model destroys an RC_ITEM
\* or takes one off a list; the model takes items off a list only through a
\* call on the provider in DeleteCurrentItem or DeleteAllItems.
ItemsNotOwned ==
    /\ lastOp'.op \in {"SetProvider", "SetSeverities", "~RC_TREE_MODEL"}
           => deleted' = deleted /\ provList' = provList
    /\ lastOp'.op = "DeleteCurrentItem" => deleted' = deleted
    /\ (provList' # provList /\ lastOp'.op # "OutOfBandDelete")
           => lastOp'.op \in {"DeleteCurrentItem", "DeleteAllItems"} /\ lastOp'.calls # NoCalls

C9_SetProviderRebuildsWhole ==
    [][ lastOp'.op = "SetProvider" =>
          /\ m_severities' = m_severities
          /\ \A a \in Addr :
                ~IsFree(heap', a) =>
                    /\ a \in TreeNodes'
                    /\ heap'[a].m_RcItem \in Range(provList'[m_rcItemsProvider'])
                    /\ severityOf(heap'[a].m_RcItem) \in m_severities'
          /\ GetDRCItemCount' = CountMatching(provList'[m_rcItemsProvider'], m_severities')
      ]_vars

\* C9 witness: a provider with visible items was attached in place of another
\* one, under a mask that hides some items.
C9_Witness ==
    /\ lastOp.op = "SetProvider"
    /\ m_rcItemsProvider = "P2"
    /\ ~provAlive["P1"]
    /\ m_severities = {"WARNING"}
    /\ Len(m_tree) >= 1
    /\ Len(provList["P2"]) > Len(m_tree)

\* C10: GetParent gives the owning top-level node for a leaf, the invalid item
\* for a top-level node, and the invalid item for the invalid item.
C10_GetParent ==
    /\ GetParent(ToItem(NULL)) = ToItem(NULL)
    /\ \A i \in 1..Len(m_tree) :
          /\ GetParent(ToItem(m_tree[i])) = ToItem(NULL)
          /\ \A j \in 1..Len(heap[m_tree[i]].m_Children) :
                GetParent(ToItem(heap[m_tree[i]].m_Children[j])) = ToItem(m_tree[i])

\* C10 witness: a tree whose second top-level node has two leaves.
C10_Witness ==
    /\ modelAlive
    /\ Len(m_tree) >= 2
    /\ Len(heap[m_tree[2]].m_Children) = 2
    /\ GetParent(ToItem(heap[m_tree[2]].m_Children[2])) = ToItem(m_tree[2])


\* The types of the nodes a sequence of handles stands for.
HandleTypes(handles) == [i \in 1..Len(handles) |-> heap[ToNode(handles[i])].m_Type]

\* C11: GetChildren yields, for the invisible root, every top-level node in
\* insertion order; for a MARKER node its leaves, the MAIN_ITEM leaf before
\* the AUX_ITEM leaf; for a leaf nothing; and it returns the number of handles
\* it appended.
C11_GetChildren ==
    /\ GetChildren(ToItem(NULL)).aChildren = [i \in 1..Len(m_tree) |-> ToItem(m_tree[i])]
    /\ \A aItem \in {ToItem(NULL)} \cup {ToItem(n) : n \in TreeNodes} :
           GetChildren(aItem).count = Len(GetChildren(aItem).aChildren)
    /\ \A i \in 1..Len(m_tree) :
           LET group   == m_tree[i]
               handles == GetChildren(ToItem(group)).aChildren
           IN  /\ \A j \in 1..Len(handles) :
                      /\ heap[ToNode(handles[j])].m_Parent = group
                      /\ heap[ToNode(handles[j])].m_RcItem = heap[group].m_RcItem
               /\ \A j, k \in 1..Len(handles) : j # k => handles[j] # handles[k]
               /\ HandleTypes(handles) \in {<< >>, <<"MAIN_ITEM">>, <<"AUX_ITEM">>,
                                             <<"MAIN_ITEM", "AUX_ITEM">>}
               /\ \A j \in 1..Len(handles) :
                      /\ GetChildren(handles[j]).aChildren = << >>
                      /\ GetChildren(handles[j]).count = 0

\* A tree with two top-level nodes, the first of them with both leaves.
C11_Witness ==
    /\ GetChildren(ToItem(NULL)).count = 2
    /\ GetChildren(ToItem(m_tree[1])).count = 2
    /\ HandleTypes(GetChildren(ToItem(m_tree[1])).aChildren) = <<"MAIN_ITEM", "AUX_ITEM">>

\* C12: IsContainer is true exactly for the invisible root and for the MARKER
\* nodes, however many children these have, and false for every leaf.
C12_IsContainer ==
    /\ IsContainer(ToItem(NULL))
    /\ \A i \in 1..Len(m_tree) :
           /\ IsContainer(ToItem(m_tree[i]))
           /\ \A j \in 1..Len(heap[m_tree[i]].m_Children) :
                  ~IsContainer(ToItem(heap[m_tree[i]].m_Children[j]))
    /\ \A n \in TreeNodes : IsContainer(ToItem(n)) <=> NodeType(ToItem(n)) = "MARKER"

\* A MARKER node without children beside one with two leaves.
C12_Witness ==
    \E i, j \in 1..Len(m_tree) :
        /\ Len(heap[m_tree[i]].m_Children) = 0
        /\ Len(heap[m_tree[j]].m_Children) = 2
        /\ IsContainer(ToItem(m_tree[i]))
        /\ ~IsContainer(ToItem(heap[m_tree[j]].m_Children[1]))

\* The two states of the projector.
Empty == GetDRCItemCount = 0

Populated == GetDRCItemCount >= 1

\* C13: the projector is Empty or Populated; SetProvider and SetSeverities
\* lead to Populated exactly when the provider's filtered count is positive;
\* a delete that succeeds lowers the number of groups by exactly one, one
\* that does not leaves it alone (so Empty is never left by a delete); and
\* DeleteAllItems leads to Empty.
C13_StateMachine ==
    [][ /\ (Empty' /\ ~Populated') \/ (Populated' /\ ~Empty')
        /\ lastOp'.op \in {"SetProvider", "SetSeverities"} =>
              \A p \in Providers :
                  p = m_rcItemsProvider' =>
                      (Populated' <=> GetCount(p, DefaultSeverity)' > 0)
        /\ (lastOp'.op = "DeleteCurrentItem" /\ lastOp'.calls # NoCalls) =>
              GetDRCItemCount' = GetDRCItemCount - 1
        /\ (lastOp'.op = "DeleteCurrentItem" /\ lastOp'.calls = NoCalls) =>
              GetDRCItemCount' = GetDRCItemCount
        /\ (lastOp'.op = "DeleteCurrentItem" /\ Empty) => Empty'
        /\ lastOp'.op = "DeleteAllItems" => Empty'
      ]_vars

\* The last group has just been deleted: the projector is Empty and the
\* provider shows no item any more.
C13_Witness ==
    /\ lastOp.op = "DeleteCurrentItem"
    /\ lastOp.calls # NoCalls
    /\ Empty
    /\ m_rcItemsProvider # NoProvider
    /\ GetCount(m_rcItemsProvider, DefaultSeverity) = 0

\* C14: SetValue returns false for every node, column and value, and leaves
\* the tree, the mask, the provider and the items as they were.
C14_SetValueRejects ==
    [][ lastOp'.op = "SetValue" =>
           /\ lastOp'.result = FALSE
           /\ UNCHANGED <<rcItems, provList, provSev, provAlive, deleted, heap, m_tree,
                           m_severities, m_rcItemsProvider, modelAlive>>
      ]_vars

\* SetValue was called on a populated tree.
C14_Witness ==
    /\ lastOp.op = "SetValue"
    /\ lastOp.result = FALSE
    /\ Len(m_tree) >= 2


\* C15 as stated: every RC_ITEM has a main identifier that is not niluuid and
\* an auxiliary identifier that is niluuid or a valid identifier other than
\* the main one, from construction on and after every setter.
C15_MainPresentAuxDistinct ==
    \A it \in Items :
        /\ GetMainItemID(rcItems[it]) # niluuid
        /\ \/ GetAuxItemID(rcItems[it]) = niluuid
           \/ /\ GetAuxItemID(rcItems[it]) \in KIIDs
              /\ GetAuxItemID(rcItems[it]) # GetMainItemID(rcItems[it])

\* C15 amended: an RC_ITEM has zero, one or two identifiers.  Both are
\* niluuid from construction; the copy constructor copies both; SetItems with
\* identifiers stores exactly the two it is given; SetItems with EDA_ITEMs
\* stores the first one's identifier as the main one (which is then present)
\* and the second one's as the auxiliary one only when a second is given,
\* keeping the old auxiliary identifier otherwise.  Each identifier is
\* niluuid or a valid identifier at all times.
C15_IdentifiersAsLastSet ==
    [][ \A it \in Items :
          /\ ConstructItemOn(it) =>
                /\ GetMainItemID(rcItems'[it]) = niluuid
                /\ GetAuxItemID(rcItems'[it]) = niluuid
          /\ \A from \in Items :
                CopyItemOn(it, from) =>
                    /\ GetMainItemID(rcItems'[it]) = GetMainItemID(rcItems[from])
                    /\ GetAuxItemID(rcItems'[it]) = GetAuxItemID(rcItems[from])
          /\ \A aItem, bItem \in KIIDs :
                SetItemsKIIDOn(it, aItem, bItem) =>
                    /\ GetMainItemID(rcItems'[it]) = aItem
                    /\ GetAuxItemID(rcItems'[it]) = bItem
          /\ \A aItem \in EDA_ITEMs, bItem \in EDA_ITEMs \cup {nullptr} :
                SetItemsOn(it, aItem, bItem) =>
                    /\ GetMainItemID(rcItems'[it]) = m_Uuid(aItem)
                    /\ GetMainItemID(rcItems'[it]) # niluuid
                    /\ GetAuxItemID(rcItems'[it]) =
                           IF bItem = nullptr THEN GetAuxItemID(rcItems[it])
                           ELSE m_Uuid(bItem)
          /\ GetMainItemID(rcItems'[it]) \in KIIDs
          /\ GetAuxItemID(rcItems'[it]) \in KIIDs
      ]_vars

\* After SetItems with one EDA_ITEM an item holds the same identifier twice,
\* beside an item that holds none.
C15_Witness ==
    /\ lastOp.op = "SetItems(EDA_ITEM*)"
    /\ \E it, other \in Items :
          /\ GetMainItemID(rcItems[it]) # niluuid
          /\ GetAuxItemID(rcItems[it]) = GetMainItemID(rcItems[it])
          /\ GetMainItemID(rcItems[other]) = niluuid
          /\ GetAuxItemID(rcItems[other]) = niluuid


\* C16 as stated: after any sequence of Report, ReportHead, ReportTail and
\* operator<< calls, HasMessage() of every reporter is true exactly when at
\* least one message has been delivered to the reporter's target, and
\* NULL_REPORTER's is always false.
C16_HasMessageIffDelivered ==
    /\ \A k \in ReporterKinds : HasMessage(k) <=> reporters[k] > 0
    /\ ~HasMessage("NULL_REPORTER")


\* A copper layer a board with n copper layers has enabled: the back layer,
\* and with two layers or more the front layer and the inner layers numbered
\* below n - 1.
EnabledCopperLayer(layer, n) ==
    /\ IsCopperLayer(layer)
    /\ \/ layer = LAYER_N_BACK
       \/ n >= 2 /\ layer = LAYER_N_FRONT
       \/ n >= 2 /\ layer > LAYER_N_BACK /\ layer < n - 1

\* C17: SwitchLayer makes `layer` the active layer only when it is no copper
\* layer or an enabled one; a disregarded request, and a request for the
\* present layer, leave the active layer as it is; so, the number of copper
\* layers being fixed, SwitchLayer never makes a disabled copper layer active.
C17_SwitchLayerOnlyToEnabled ==
    [][ \A layer \in Layers :
          SwitchLayerOn(layer) =>
              LET n       == frame.copperLayerCount
                  allowed == ~IsCopperLayer(layer) \/ EnabledCopperLayer(layer, n)
              IN  /\ frame'.m_Active_Layer # frame.m_Active_Layer =>
                        frame'.m_Active_Layer = layer /\ allowed
                  /\ (~allowed \/ layer = frame.m_Active_Layer) =>
                        frame'.m_Active_Layer = frame.m_Active_Layer
                  /\ (allowed /\ layer # frame.m_Active_Layer) =>
                        frame'.m_Active_Layer = layer
                  /\ frame'.copperLayerCount = n
                  /\ (frame'.m_Active_Layer # frame.m_Active_Layer
                         /\ IsCopperLayer(frame'.m_Active_Layer)) =>
                        EnabledCopperLayer(frame'.m_Active_Layer, n)
      ]_vars

\* On a board of more than three copper layers, with its highest enabled
\* inner layer active, the request for the next inner layer has just been
\* disregarded.
C17_Witness ==
    /\ lastOp.op = "SwitchLayer"
    /\ lastOp.arg = frame.copperLayerCount - 1
    /\ frame.copperLayerCount > 3
    /\ frame.m_Active_Layer = frame.copperLayerCount - 2
    /\ ~EnabledCopperLayer(lastOp.arg, frame.copperLayerCount)
    /\ EnabledCopperLayer(frame.m_Active_Layer, frame.copperLayerCount)

\* C18 as stated: with contrast mode on, a SetToolID( aId >= 0 ) that takes
\* the tool from ID_TRACK_BUTT to another tool, or from another tool to
\* ID_TRACK_BUTT, refreshes the canvas once the tool is set; with aId < 0,
\* without such a transition or with contrast mode off it refreshes nothing.
C18_RefreshOnTrackToolTransition ==
    [][ \A aId \in {-1} \cup ToolIds :
          SetToolIDOn(aId) =>
              LET crosses == \/ frame.m_toolId = ID_TRACK_BUTT /\ aId # ID_TRACK_BUTT
                             \/ frame.m_toolId # ID_TRACK_BUTT /\ aId = ID_TRACK_BUTT
              IN  /\ (aId >= 0 /\ frame.ContrastModeDisplay /\ crosses /\ frame.m_canvas) =>
                        frame'.m_toolId = aId /\ frame'.refreshed
                  /\ (aId < 0 \/ ~crosses \/ ~frame.ContrastModeDisplay) =>
                        ~frame'.refreshed
      ]_vars


DrawModes == LINE..SKETCH

\* C19: after LoadSettings, whatever the configuration holds, the grid id is
\* an existent one (above 0 and at most ID_POPUP_GRID_USER -
\* ID_POPUP_GRID_LEVEL_1000, a value outside having been replaced by
\* ID_POPUP_GRID_LEVEL_500 - ID_POPUP_GRID_LEVEL_1000) and the module edge
\* and module text modes lie in [LINE, SKETCH], a value outside having been
\* replaced by FILLED.
C19_LoadSettingsClamps ==
    [][ lastOp'.op = "LoadSettings" =>
          LET edge == ConfigRead(config, ConfigKey(DisplayModuleEdgeEntry), FILLED)
              text == ConfigRead(config, ConfigKey(DisplayModuleTextEntry), FILLED)
          IN  /\ frame'.m_LastGridSizeId > 0
              /\ frame'.m_LastGridSizeId <= ID_POPUP_GRID_USER - ID_POPUP_GRID_LEVEL_1000
              /\ \A id \in GridIdInputs :
                    frame' = LoadedFrame(frame, config, id) =>
                        frame'.m_LastGridSizeId =
                            IF id > 0 /\ id <= ID_POPUP_GRID_USER - ID_POPUP_GRID_LEVEL_1000
                            THEN id
                            ELSE ID_POPUP_GRID_LEVEL_500 - ID_POPUP_GRID_LEVEL_1000
              /\ frame'.m_DisplayModEdge \in DrawModes
              /\ frame'.m_DisplayModText \in DrawModes
              /\ frame'.m_DisplayModEdge = IF edge \in DrawModes THEN edge ELSE FILLED
              /\ frame'.m_DisplayModText = IF text \in DrawModes THEN text ELSE FILLED
      ]_vars

\* The configuration holds an edge mode above SKETCH and a text mode below
\* LINE; LoadSettings has put FILLED in the place of both.
C19_Witness ==
    /\ lastOp.op = "LoadSettings"
    /\ config[ConfigKey(DisplayModuleEdgeEntry)] = <<SKETCH + 1>>
    /\ config[ConfigKey(DisplayModuleTextEntry)] = <<LINE - 1>>
    /\ frame.m_DisplayModEdge = FILLED
    /\ frame.m_DisplayModText = FILLED
    /\ frame.m_LastGridSizeId = ID_POPUP_GRID_LEVEL_500 - ID_POPUP_GRID_LEVEL_1000

\* A value of the entry's type that is not the default LoadSettings reads it with.
ProbeValue(entry) ==
    CASE entry \in {UserGridSizeXEntry, UserGridSizeYEntry} -> "2.54"
      [] entry \in {DisplayPadFillEntry, DisplayViaFillEntry, DisplayPadNumberEntry} -> FALSE
      [] OTHER -> SKETCH

\* The keys LoadSettings reads: those whose entry changes what it loads.
KeysRead ==
    {ConfigKey(e) : e \in {e \in ConfigEntries :
        LoadedFrame(PCB_BASE_FRAME_ctor, ConfigEmpty, 1) #
        LoadedFrame(PCB_BASE_FRAME_ctor,
                    ConfigWrite(ConfigEmpty, ConfigKey(e), ProbeValue(e)), 1)}}

Mirrors ==
    m_rcItemsProvider # NoProvider =>
        /\ GetDRCItemCount = GetCount(m_rcItemsProvider, DefaultSeverity)
        /\ \A k \in 1..GetDRCItemCount :
               heap[m_tree[k]].m_RcItem = GetItem(m_rcItemsProvider, k)

\* C21: as long as only SetProvider, SetSeverities, DeleteCurrentItem and
\* DeleteAllItems change the provider, the tree mirrors it (as many top-level
\* nodes as the provider shows items, the k-th node for the k-th visible
\* item), before and after every step; and DeleteCurrentItem on any node of
\* the tree removes from the provider's list exactly the item of that node's
\* group, at its present index.
C21_CacheCoherence ==
    [][ /\ Mirrors
        /\ Mirrors'
        /\ \A current \in Addr, aDeep \in BOOLEAN :
              (current \in TreeNodes /\ DeleteCurrentItemOn(current, aDeep)) =>
                  LET it == heap[OwnerOf(current)].m_RcItem
                      k  == IndexOf(m_tree, OwnerOf(current))
                  IN  /\ it = GetItem(m_rcItemsProvider, k)
                      /\ lastOp'.calls = <<Call("DeleteItem", k, aDeep, {})>>
                      /\ Range(provList'[m_rcItemsProvider]) =
                             Range(provList[m_rcItemsProvider]) \ {it}
                      /\ Len(provList'[m_rcItemsProvider]) =
                             Len(provList[m_rcItemsProvider]) - 1
      ]_vars

\* Under a filter that hides an item a delete has just removed a group; a
\* group is left and it is the provider's first visible item.
C21_Witness ==
    /\ lastOp.op = "DeleteCurrentItem"
    /\ lastOp.calls # NoCalls
    /\ GetDRCItemCount >= 1
    /\ GetCount(m_rcItemsProvider, Severities) > GetCount(m_rcItemsProvider, DefaultSeverity)
    /\ heap[m_tree[1]].m_RcItem = GetItem(m_rcItemsProvider, 1)
    /\ Len(provList["P1"]) + Len(provList["P2"]) = MaxItems - 1


\* C22 as stated: under any interleaving of LoadSettings and
\* OnTogglePadDrawMode the frame's m_DisplayPadFill equals
\* DisplayOpt.DisplayPadFill, a toggle negates both, and the check state
\* OnUpdatePadDrawMode gives the tool (checked when pads are not filled)
\* agrees with the option the painter was loaded with.
C22_PadFillInSync ==
    [][ /\ frame'.m_DisplayPadFill = frame'.DisplayOptPadFill
        /\ lastOp'.op = "OnTogglePadDrawMode" =>
              /\ frame'.m_DisplayPadFill = ~frame.m_DisplayPadFill
              /\ frame'.DisplayOptPadFill = ~frame.DisplayOptPadFill
        /\ lastOp'.op = "OnUpdatePadDrawMode" =>
              frame'.padToolChecked = ~frame'.painterPadFill
      ]_vars

\* C23 as stated: under any sequence of SetBoard calls followed by the
\* frame's destruction, the frame's board pointer is NULL or a board that has
\* not been deleted, every board the frame was given and no longer holds has
\* been deleted exactly once, and no board is deleted twice, SetBoard with
\* the board already held included.
C23_BoardOwnershipSafe ==
    /\ ~frame.crashed
    /\ ~frame.destroyed =>
          (frame.m_Pcb = NULL \/ frame.boards[frame.m_Pcb].deletes = 0)
    /\ \A b \in Boards :
          /\ frame.boards[b].deletes <= 1
          /\ (frame.boards[b].given /\ (frame.destroyed \/ b # frame.m_Pcb)) =>
                 frame.boards[b].deletes = 1

============================================================================
